---- MODULE Spec2Model ----
(***************************************************************************)
(* Model of verilog_axi/axi/axi_interconnect.py: the AXIInterconnect       *)
(* registry (add_slave / add_master), its parameter check                  *)
(* (get_check_parameters) and the derivation and packing done by           *)
(* do_finalize.                                                            *)
(*                                                                         *)
(* Python integers are unbounded; the packed parameter values are wider    *)
(* than a machine word, so an integer that is shifted or or-ed is held as  *)
(* its sequence of bits, least significant first, without leading zeros.   *)
(***************************************************************************)
EXTENDS Naturals, Sequences, FiniteSets, TLC

----------------------------------------------------------------------------
(* Bounds of the model.                                                    *)

\* Ports held by the registry, slaves and masters together.
MaxPorts == 3
\* Instances appended to self.specials (successful do_finalize calls).
MaxFinalize == 2
\* Masters and slaves registered in the derivation specification.
MaxDeriveMasters == 2
MaxDeriveSlaves == 1
\* Slaves and masters registered in the packing specification.
MaxPackSlaves == 2
MaxPackMasters == 2

----------------------------------------------------------------------------
(* The caller's inputs.                                                    *)

\* name=None, the default of add_slave and add_master.
None == "<None>"

\* The AXIInterface objects the caller owns; an interface is identified by
\* its index (reference identity).  Fields: the clock domain and the widths
\* of aw.addr, w.data and aw.id.
AXIInterfaces ==
    << [clock_domain |-> "sys",   addr |-> 2, data |-> 1, id |-> 1],
       [clock_domain |-> "sys",   addr |-> 2, data |-> 1, id |-> 2],
       [clock_domain |-> "other", addr |-> 2, data |-> 1, id |-> 1],
       [clock_domain |-> "sys",   addr |-> 3, data |-> 1, id |-> 1],
       [clock_domain |-> "sys",   addr |-> 2, data |-> 2, id |-> 1] >>

Ifs == 1..Len(AXIInterfaces)

\* Names a caller passes: none, or a name that a default name can meet.
NameArgs == {None, "s_axi1", "m_axi1"}

\* The (origin, size) region a caller passes to add_master; the derivation
\* specification below varies it.
Regions == { [origin |-> 1, size |-> 4096] }

\* Inputs of the derivation specification: one interface per address width,
\* origins on both sides of 2^address_width, sizes that are and are not
\* powers of two, and size 0.
DeriveIfs     == {1, 4}
DeriveOrigins == {0, 1, 3, 4}
DeriveSizes   == {0, 1, 3, 4096, 8192}

\* Inputs of the packing specification: two interfaces that agree on clock
\* domain, address width and data width and differ in identity and ID
\* width, and regions that differ in origin and in size.
PackIfs     == {1, 2}
PackRegions == { [origin |-> 1, size |-> 4096], [origin |-> 2, size |-> 8192],
                 [origin |-> 4, size |-> 3] }

----------------------------------------------------------------------------
(* Python integers as bit sequences.                                       *)

RECURSIVE ToBits(_)
ToBits(n) == IF n = 0 THEN << >> ELSE << n % 2 >> \o ToBits(n \div 2)

RECURSIVE BitsToNat(_)
BitsToNat(b) == IF b = << >> THEN 0 ELSE Head(b) + 2 * BitsToNat(Tail(b))

\* value <<= width
ShiftLeft(value, width) ==
    IF value = << >> THEN << >> ELSE [i \in 1..width |-> 0] \o value

BitAt(value, i) == IF i <= Len(value) THEN value[i] ELSE 0

\* value |= param
BitOr(value, param) ==
    LET n == IF Len(value) >= Len(param) THEN Len(value) ELSE Len(param)
    IN  [i \in 1..n |-> IF BitAt(value, i) = 1 \/ BitAt(param, i) = 1 THEN 1 ELSE 0]

\* migen's Constant(value, nbits): the value with its declared width.
Constant(value, nbits) == [value |-> value, nbits |-> nbits]

\* The field of `width` bits at position i (0 = low-order) of a value.
FieldOf(value, i, width) == [k \in 1..width |-> BitAt(value, i * width + k)]

\* A number as a field of `width` bits (its low-order `width` bits).
AsField(n, width) == [k \in 1..width |-> BitAt(ToBits(n), k)]

----------------------------------------------------------------------------
(* State.                                                                  *)

VARIABLES
    s_axis,             \* self.s_axis: ordered mapping, << [name, axi] >>
    m_axis,             \* self.m_axis: << [name, axi, origin, size] >>
    clock_domain,       \* self.clock_domain
    address_width,      \* self.address_width
    data_width,         \* self.data_width
    id_width,           \* self.id_width
    specials,           \* self.specials: the Instances do_finalize added
    lastCall,           \* the last call made and how it ended
    first_registered,   \* history: the interface of the first port inserted
    registrations       \* history: the add_slave/add_master calls that returned

vars == << s_axis, m_axis, clock_domain, address_width, data_width, id_width,
           specials, lastCall, first_registered, registrations >>

\* An attribute of self that no statement has assigned yet.
Unset == "<unset>"

----------------------------------------------------------------------------
(* Ordered mappings (Python dict).                                         *)

Keys(d) == { d[i].name : i \in 1..Len(d) }

Lookup(d, name) == d[CHOOSE i \in 1..Len(d) : d[i].name = name]

\* d[name] = entry: replaces the value of a present key in place, appends a
\* new key.
DictSet(d, name, entry) ==
    IF name \in Keys(d)
    THEN [i \in 1..Len(d) |-> IF d[i].name = name THEN entry ELSE d[i]]
    ELSE Append(d, entry)

\* {**a, **b}: the keys of a in order with b's values where b has the key,
\* then the keys only b has.
DictMerge(a, b) ==
    [i \in 1..Len(a) |-> IF a[i].name \in Keys(b) THEN Lookup(b, a[i].name) ELSE a[i]]
    \o SelectSeq(b, LAMBDA e : e.name \notin Keys(a))

\* [axi_if.axi for name, axi_if in axi_ifs.items()]
AxisOf(d) == [i \in 1..Len(d) |-> d[i].axi]

\* get_if_name: the first name of the merged mapping whose interface is axi.
get_if_name(s, m, axi) ==
    LET axi_ifs == DictMerge(s, m)
        hits    == { i \in 1..Len(axi_ifs) : axi_ifs[i].axi = axi }
    IN  IF hits = {} THEN None
        ELSE axi_ifs[CHOOSE i \in hits : \A j \in hits : i <= j].name

----------------------------------------------------------------------------
(* get_check_parameters.                                                   *)

\* The list the checks run over.
CheckedAxis(s, m) == AxisOf(DictMerge(s, m))

\* One check loop: some interface after the first differs from the first.
Differs(axis, field) ==
    \E i \in 2..Len(axis) : AXIInterfaces[axis[i]][field] # AXIInterfaces[axis[1]][field]

\* Mutant: id_width is taken from the interface only by the first call and
\* kept from then on.
get_check_parameters_IdWidthOnce(s, m, old) ==
    LET axis  == CheckedAxis(s, m)
        first == AXIInterfaces[axis[1]]
        cd    == [old EXCEPT !.clock_domain = first.clock_domain]
        aw    == [cd  EXCEPT !.address_width = first.addr]
        dw    == [aw  EXCEPT !.data_width = first.data]
        idw   == IF old.clock_domain = Unset
                 THEN [dw EXCEPT !.id_width = first.id]
                 ELSE dw
    IN  IF axis = << >>
        THEN [exc |-> "IndexError", error |-> "", attrs |-> old]
        ELSE IF Differs(axis, "clock_domain")
        THEN [exc |-> "AXIError", error |-> "Different Clock Domain", attrs |-> cd]
        ELSE IF Differs(axis, "addr")
        THEN [exc |-> "AXIError", error |-> "Different Address Width", attrs |-> aw]
        ELSE IF Differs(axis, "data")
        THEN [exc |-> "AXIError", error |-> "Different Data Width", attrs |-> dw]
        ELSE [exc |-> "", error |-> "", attrs |-> idw]

\* Mutant: an empty list of interfaces passes with default parameters.
get_check_parameters_EmptyPasses(s, m, old) ==
    LET axis  == CheckedAxis(s, m)
        first == AXIInterfaces[axis[1]]
        cd    == [old EXCEPT !.clock_domain = first.clock_domain]
        aw    == [cd  EXCEPT !.address_width = first.addr]
        dw    == [aw  EXCEPT !.data_width = first.data]
        idw   == [dw  EXCEPT !.id_width = first.id]
    IN  IF axis = << >>
        THEN [exc |-> "", error |-> "",
              attrs |-> [clock_domain |-> "sys", address_width |-> 1,
                         data_width |-> 1, id_width |-> 1]]
        ELSE IF Differs(axis, "clock_domain")
        THEN [exc |-> "AXIError", error |-> "Different Clock Domain", attrs |-> cd]
        ELSE IF Differs(axis, "addr")
        THEN [exc |-> "AXIError", error |-> "Different Address Width", attrs |-> aw]
        ELSE IF Differs(axis, "data")
        THEN [exc |-> "AXIError", error |-> "Different Data Width", attrs |-> dw]
        ELSE [exc |-> "", error |-> "", attrs |-> idw]

\* The outcome of get_check_parameters on mappings s, m with the attributes
\* old: the exception raised ("" when it returns), the error logged, and the
\* attributes of self afterwards (each is assigned just before its loop).
get_check_parameters(s, m, old) ==
    LET axis  == CheckedAxis(s, m)
        first == AXIInterfaces[axis[1]]
        cd    == [old EXCEPT !.clock_domain = first.clock_domain]
        aw    == [cd  EXCEPT !.address_width = first.addr]
        dw    == [aw  EXCEPT !.data_width = first.data]
        idw   == [dw  EXCEPT !.id_width = first.id]
    IN  IF axis = << >>
        THEN [exc |-> "IndexError", error |-> "", attrs |-> old]
        ELSE IF Differs(axis, "clock_domain")
        THEN [exc |-> "AXIError", error |-> "Different Clock Domain", attrs |-> cd]
        ELSE IF Differs(axis, "addr")
        THEN [exc |-> "AXIError", error |-> "Different Address Width", attrs |-> aw]
        ELSE IF Differs(axis, "data")
        THEN [exc |-> "AXIError", error |-> "Different Data Width", attrs |-> dw]
        ELSE [exc |-> "", error |-> "", attrs |-> idw]

Attrs == [clock_domain |-> clock_domain, address_width |-> address_width,
          data_width |-> data_width, id_width |-> id_width]

SetAttrs(a) ==
    /\ clock_domain'  = a.clock_domain
    /\ address_width' = a.address_width
    /\ data_width'    = a.data_width
    /\ id_width'      = a.id_width

----------------------------------------------------------------------------
Init ==
    /\ s_axis = << >>
    /\ m_axis = << >>
    /\ clock_domain = Unset
    /\ address_width = Unset
    /\ data_width = Unset
    /\ id_width = Unset
    /\ specials = << >>
    /\ lastCall = [op |-> "__init__", exc |-> "", error |-> ""]
    /\ first_registered = 0
    /\ registrations = 0

----------------------------------------------------------------------------
(* add_slave, add_master.                                                  *)

Returned(op) == [op |-> op, exc |-> "", error |-> ""]
Raised(op, exc, error) == [op |-> op, exc |-> exc, error |-> error]

FirstRegistered(axi) == IF first_registered = 0 THEN axi ELSE first_registered

\* The body of add_slave/add_master after the name check: insert the port,
\* then check the parameters of the mappings as they are now.
Register(op, s, m, axi) ==
    LET r == get_check_parameters(s, m, Attrs)
    IN  /\ s_axis' = s
        /\ m_axis' = m
        /\ SetAttrs(r.attrs)
        /\ lastCall' = Raised(op, r.exc, r.error)
        /\ first_registered' = FirstRegistered(axi)
        /\ registrations' = IF r.exc = "" THEN registrations + 1 ELSE registrations
        /\ UNCHANGED specials

DuplicateName(op) ==
    /\ lastCall' = Raised(op, "ValueError", "")
    /\ UNCHANGED << s_axis, m_axis, clock_domain, address_width, data_width,
                    id_width, specials, first_registered, registrations >>

SlaveName(name) == IF name = None THEN "s_axi" \o ToString(Len(s_axis)) ELSE name

\* add_slave without the name check: the assignment overwrites the entry.
add_slave_NoNameCheck(name, s_axi) ==
    LET n == SlaveName(name)
    IN  Register("add_slave",
                 DictSet(s_axis, n, [name |-> n, axi |-> s_axi]), m_axis, s_axi)

add_slave(name, s_axi) ==
    LET n == SlaveName(name)
    IN  IF n \in Keys(s_axis)
        THEN DuplicateName("add_slave")
        ELSE Register("add_slave",
                      DictSet(s_axis, n, [name |-> n, axi |-> s_axi]), m_axis, s_axi)

MasterName(name) == IF name = None THEN "m_axi" \o ToString(Len(m_axis)) ELSE name

add_master(name, m_axi, origin, size) ==
    LET n == MasterName(name)
    IN  IF n \in Keys(m_axis)
        THEN DuplicateName("add_master")
        ELSE Register("add_master", s_axis,
                      DictSet(m_axis, n, [name |-> n, axi |-> m_axi,
                                          origin |-> origin, size |-> size]), m_axi)

----------------------------------------------------------------------------
(* do_finalize.                                                            *)

\* math.ceil(math.log2(size)) for size >= 1.
RECURSIVE CeilLog2(_)
CeilLog2(size) == IF size <= 1 THEN 0 ELSE 1 + CeilLog2((size + 1) \div 2)

m_origins(m) == [i \in 1..Len(m) |-> m[i].origin]
\* Mutant: the floor of the logarithm instead of its ceiling.
RECURSIVE FloorLog2(_)
FloorLog2(size) == IF size <= 1 THEN 0 ELSE 1 + FloorLog2(size \div 2)

m_widths_Floor(m) == [i \in 1..Len(m) |-> FloorLog2(m[i].size)]

m_widths(m)  == [i \in 1..Len(m) |-> CeilLog2(m[i].size)]

\* Mutant: the loop over params instead of reversed(params).
RECURSIVE format_value_Forward(_, _)
format_value_Forward(params, width) ==
    IF params = << >> THEN << >>
    ELSE BitOr(ShiftLeft(format_value_Forward(SubSeq(params, 1, Len(params) - 1), width),
                         width),
               ToBits(params[Len(params)]))

\* The loop of format_m_params: over reversed(params), shift, then or.
RECURSIVE format_value(_, _)
format_value(params, width) ==
    IF params = << >> THEN << >>
    ELSE BitOr(ShiftLeft(format_value(Tail(params), width), width), ToBits(Head(params)))

format_m_params(params, width) ==
    Constant(format_value(params, width), Len(params) * width)

\* The field width of M_ADDR_WIDTH.
M_ADDR_WIDTH_BITS == 32

\* Mutant: the signals concatenated last port first.
Cat_Reversed(axis, signal) ==
    [i \in 1..Len(axis) |->
        [axi |-> axis[Len(axis) + 1 - i], signal |-> signal,
         nbits |-> AXIInterfaces[axis[Len(axis) + 1 - i]][signal]]]

\* Cat(*[axi.<signal> for axi in axis]): the signals, low-order first.
Cat(axis, signal) ==
    [i \in 1..Len(axis) |->
        [axi |-> axis[i], signal |-> signal, nbits |-> AXIInterfaces[axis[i]][signal]]]

\* Instance with M_COUNT taken from the slave list.
Instance_SlaveCountTwice(s, m, a) ==
    [ S_COUNT      |-> Len(AxisOf(s)),
      M_COUNT      |-> Len(AxisOf(s)),
      DATA_WIDTH   |-> a.data_width,
      ADDR_WIDTH   |-> a.address_width,
      ID_WIDTH     |-> a.id_width,
      M_BASE_ADDR  |-> format_m_params(m_origins(m), a.address_width),
      M_ADDR_WIDTH |-> format_m_params(m_widths(m), M_ADDR_WIDTH_BITS),
      clk          |-> a.clock_domain,
      s_axi_awid   |-> Cat(AxisOf(s), "id"),
      s_axi_awaddr |-> Cat(AxisOf(s), "addr"),
      s_axi_wdata  |-> Cat(AxisOf(s), "data"),
      m_axi_awid   |-> Cat(AxisOf(m), "id"),
      m_axi_awaddr |-> Cat(AxisOf(m), "addr"),
      m_axi_wdata  |-> Cat(AxisOf(m), "data") ]

\* The Instance("axi_interconnect", ...) built from the mappings and the
\* attributes get_check_parameters has just set.
Instance(s, m, a) ==
    [ S_COUNT      |-> Len(AxisOf(s)),
      M_COUNT      |-> Len(AxisOf(m)),
      DATA_WIDTH   |-> a.data_width,
      ADDR_WIDTH   |-> a.address_width,
      ID_WIDTH     |-> a.id_width,
      M_BASE_ADDR  |-> format_m_params(m_origins(m), a.address_width),
      M_ADDR_WIDTH |-> format_m_params(m_widths(m), M_ADDR_WIDTH_BITS),
      clk          |-> a.clock_domain,
      s_axi_awid   |-> Cat(AxisOf(s), "id"),
      s_axi_awaddr |-> Cat(AxisOf(s), "addr"),
      s_axi_wdata  |-> Cat(AxisOf(s), "data"),
      m_axi_awid   |-> Cat(AxisOf(m), "id"),
      m_axi_awaddr |-> Cat(AxisOf(m), "addr"),
      m_axi_wdata  |-> Cat(AxisOf(m), "data") ]

\* Mutant: a size of 0 is let through as a region of width 0.
Log2Fails_Never(m) == FALSE

\* math.log2 raises ValueError on 0.
Log2Fails(m) == \E i \in 1..Len(m) : m[i].size = 0

\* Mutant: do_finalize that empties the master mapping it has consumed.
do_finalize_Consuming ==
    LET r == get_check_parameters(s_axis, m_axis, Attrs)
    IN  /\ SetAttrs(r.attrs)
        /\ UNCHANGED << s_axis, first_registered, registrations >>
        /\ IF r.exc # ""
           THEN /\ lastCall' = Raised("do_finalize", r.exc, r.error)
                /\ UNCHANGED << specials, m_axis >>
           ELSE IF Log2Fails(m_axis)
           THEN /\ lastCall' = Raised("do_finalize", "ValueError", "")
                /\ UNCHANGED << specials, m_axis >>
           ELSE /\ lastCall' = Returned("do_finalize")
                /\ specials' = Append(specials, Instance(s_axis, m_axis, r.attrs))
                /\ m_axis' = << >>

do_finalize ==
    LET r == get_check_parameters(s_axis, m_axis, Attrs)
    IN  /\ SetAttrs(r.attrs)
        /\ UNCHANGED << s_axis, m_axis, first_registered, registrations >>
        /\ IF r.exc # ""
           THEN /\ lastCall' = Raised("do_finalize", r.exc, r.error)
                /\ UNCHANGED specials
           ELSE IF Log2Fails(m_axis)
           THEN /\ lastCall' = Raised("do_finalize", "ValueError", "")
                /\ UNCHANGED specials
           ELSE /\ lastCall' = Returned("do_finalize")
                /\ specials' = Append(specials, Instance(s_axis, m_axis, r.attrs))

----------------------------------------------------------------------------
(* The calls a user of the class makes.                                    *)

\* Ports are registered while there is room and before an Instance is
\* emitted: a module is finalized after its ports have been added.
Room == Len(s_axis) + Len(m_axis) < MaxPorts /\ specials = << >>

AddSlave ==
    /\ Room
    /\ \E name \in NameArgs, axi \in Ifs : add_slave(name, axi)

AddMaster ==
    /\ Room
    /\ \E name \in NameArgs, axi \in Ifs, region \in Regions :
          add_master(name, axi, region.origin, region.size)

Finalize ==
    /\ Len(specials) < MaxFinalize
    /\ do_finalize

Next == AddSlave \/ AddMaster \/ Finalize

Spec == Init /\ [][Next]_vars

\* The info records get_check_parameters logs: with show, one after each
\* check that passes.
info_logged(r, show) ==
    IF ~show \/ r.exc = "IndexError" THEN << >>
    ELSE IF r.error = "Different Clock Domain" THEN << >>
    ELSE IF r.error = "Different Address Width" THEN << "Clock Domain" >>
    ELSE IF r.error = "Different Data Width"
    THEN << "Clock Domain", "Address Width" >>
    ELSE << "Clock Domain", "Address Width", "Data Width", "ID Width" >>

\* Mutant: parameters that were assigned once are taken as checked.
validate_Cached(show) ==
    LET r == IF clock_domain # Unset
             THEN [exc |-> "", error |-> "", attrs |-> Attrs]
             ELSE get_check_parameters(s_axis, m_axis, Attrs)
    IN  /\ SetAttrs(r.attrs)
        /\ lastCall' = [op |-> "get_check_parameters", exc |-> r.exc,
                        error |-> r.error, show |-> show,
                        info |-> info_logged(r, show)]
        /\ UNCHANGED << s_axis, m_axis, specials, first_registered, registrations >>

\* A direct call of get_check_parameters(show).
validate(show) ==
    LET r == get_check_parameters(s_axis, m_axis, Attrs)
    IN  /\ SetAttrs(r.attrs)
        /\ lastCall' = [op |-> "get_check_parameters", exc |-> r.exc,
                        error |-> r.error, show |-> show,
                        info |-> info_logged(r, show)]
        /\ UNCHANGED << s_axis, m_axis, specials, first_registered, registrations >>

Validate == \E show \in BOOLEAN : validate(show)

\* The calls of Spec together with direct calls of get_check_parameters.
NextValidate == AddSlave \/ AddMaster \/ Finalize \/ Validate

SpecValidate == Init /\ [][NextValidate]_vars

\* AXIInterconnectWrapper.__init__ on a fresh interconnect: the loop over
\* masters, then the loop over slaves, then the return.  The elements of the
\* two argument lists are drawn as the loops reach them; an exception of a
\* call leaves __init__ at once.
WrapperOp == "AXIInterconnectWrapper.__init__"

WrapperRunning == lastCall.op # WrapperOp /\ lastCall.exc = ""

WrapperAddSlave ==
    /\ WrapperRunning
    /\ m_axis = << >>
    /\ Room
    /\ \E m \in Ifs : add_slave(None, m)

WrapperAddMaster ==
    /\ WrapperRunning
    /\ Room
    /\ \E s \in Ifs, region \in Regions :
          add_master(None, s, region.origin, region.size)

WrapperReturn ==
    /\ WrapperRunning
    /\ lastCall' = Returned(WrapperOp)
    /\ UNCHANGED << s_axis, m_axis, clock_domain, address_width, data_width,
                    id_width, specials, first_registered, registrations >>

NextWrapper == WrapperAddSlave \/ WrapperAddMaster \/ WrapperReturn

SpecWrapper == Init /\ [][NextWrapper]_vars

\* The derivation specification: the calls in the order in which
\* AXIInterconnectWrapper makes them (add_slave for each of its masters,
\* then add_master for each of its slaves, all with default names), with
\* regions drawn from the wider sets, followed by do_finalize.
Registering == lastCall.op # "do_finalize"

DeriveSlave ==
    /\ Registering
    /\ m_axis = << >>
    /\ Len(s_axis) < MaxDeriveSlaves
    /\ \E axi \in DeriveIfs : add_slave(None, axi)

DeriveMaster ==
    /\ Registering
    /\ Len(m_axis) < MaxDeriveMasters
    /\ \E axi \in DeriveIfs, origin \in DeriveOrigins, size \in DeriveSizes :
          add_master(None, axi, origin, size)

DeriveFinalize ==
    /\ Len(specials) < MaxFinalize
    /\ do_finalize

NextDerive == DeriveSlave \/ DeriveMaster \/ DeriveFinalize

SpecDerive == Init /\ [][NextDerive]_vars

\* The packing specification: consistent interfaces under default names,
\* slaves and masters in any order, then do_finalize.
PackSlave ==
    /\ specials = << >>
    /\ Len(s_axis) < MaxPackSlaves
    /\ \E axi \in PackIfs : add_slave(None, axi)

PackMaster ==
    /\ specials = << >>
    /\ Len(m_axis) < MaxPackMasters
    /\ \E axi \in PackIfs, region \in PackRegions :
          add_master(None, axi, region.origin, region.size)

PackFinalize ==
    /\ Len(specials) < MaxFinalize
    /\ do_finalize

NextPack == PackSlave \/ PackMaster \/ PackFinalize

SpecPack == Init /\ [][NextPack]_vars

----------------------------------------------------------------------------
(* Properties.                                                             *)

Last(q) == q[Len(q)]

\* Every port held in the two mappings, slaves then masters.
AllPorts == AxisOf(s_axis) \o AxisOf(m_axis)

\* All interfaces of a list share clock domain, address width, data width.
SameParameters(axis) ==
    \A i, j \in 1..Len(axis) :
        /\ AXIInterfaces[axis[i]].clock_domain = AXIInterfaces[axis[j]].clock_domain
        /\ AXIInterfaces[axis[i]].addr = AXIInterfaces[axis[j]].addr
        /\ AXIInterfaces[axis[i]].data = AXIInterfaces[axis[j]].data

FinalizeReturned == lastCall.op = "do_finalize" /\ lastCall.exc = ""

CountsMatchRegistrations ==
    /\ specials # << >>
    /\ Last(specials).S_COUNT + Last(specials).M_COUNT = registrations

\* C1 (as stated): after registrations whose interfaces all share clock
\* domain, address width and data width, do_finalize returns and the emitted
\* S_COUNT + M_COUNT is the number of registrations made.
C1_Original ==
    (lastCall.op = "do_finalize" /\ registrations >= 1 /\ SameParameters(AllPorts))
        => (lastCall.exc = "" /\ CountsMatchRegistrations)

\* C1 (amended): the same, when at least one master is registered and every
\* registered master has size > 0.
C1_FinalizeCountsRegistrations ==
    ( /\ lastCall.op = "do_finalize"
      /\ SameParameters(AllPorts)
      /\ Len(m_axis) >= 1
      /\ \A i \in 1..Len(m_axis) : m_axis[i].size > 0 )
        => (lastCall.exc = "" /\ CountsMatchRegistrations)

C1_Witness ==
    /\ FinalizeReturned
    /\ Len(s_axis) = 1 /\ Len(m_axis) = 2
    /\ SameParameters(AllPorts)
    /\ registrations = 3

\* The port the last add_slave/add_master call inserted.
Introduced ==
    IF lastCall.op = "add_slave" THEN Last(s_axis).axi ELSE Last(m_axis).axi

IntroducedOtherClockDomain ==
    /\ lastCall.op \in {"add_slave", "add_master"}
    /\ lastCall.exc # "ValueError"
    /\ AXIInterfaces[Introduced].clock_domain
          # AXIInterfaces[first_registered].clock_domain

\* C2: a registration that introduces a port whose clock domain differs from
\* the first-registered port's fails with the clock-domain error.
C2_ClockDomainMismatchFails ==
    IntroducedOtherClockDomain =>
        (lastCall.exc = "AXIError" /\ lastCall.error = "Different Clock Domain")

\* C3: do_finalize emits an Instance only if all ports held in the mappings
\* share clock domain, address width and data width; otherwise it raises the
\* consistency error and emits nothing.
C3_FinalizeIsIntegrityCheckpoint ==
    [][ Finalize =>
          \/ SameParameters(AllPorts)
          \/ (lastCall'.exc = "AXIError" /\ specials' = specials) ]_vars

\* C4: an add_slave/add_master call that raises the consistency error leaves
\* both mappings as they were before the call.
C4_FailedRegistrationRejected ==
    [][ ((AddSlave \/ AddMaster) /\ lastCall'.exc = "AXIError")
          => (s_axis' = s_axis /\ m_axis' = m_axis) ]_vars

\* C5: a registration under a name already present on its side raises the
\* duplicate-name error (ValueError) and leaves both mappings unchanged, so
\* the count is the same and the name maps to the interface it mapped to.
C5_DuplicateNameRejected ==
    [][ /\ \A name \in NameArgs, axi \in Ifs :
             (add_slave(name, axi) /\ SlaveName(name) \in Keys(s_axis))
                => ( /\ lastCall'.exc = "ValueError"
                     /\ s_axis' = s_axis /\ m_axis' = m_axis )
        /\ \A name \in NameArgs, axi \in Ifs, region \in Regions :
             (add_master(name, axi, region.origin, region.size)
                  /\ MasterName(name) \in Keys(m_axis))
                => ( /\ lastCall'.exc = "ValueError"
                     /\ s_axis' = s_axis /\ m_axis' = m_axis ) ]_vars

C5_Witness ==
    /\ lastCall.op = "add_slave"
    /\ lastCall.exc = "ValueError"
    /\ Len(s_axis) = 1
    /\ s_axis[1].name = "s_axi1"

\* C6: no name is held by two registered ports, on one side or across the
\* two sides.
C6_NamesUnique ==
    /\ \A i, j \in 1..Len(s_axis) : s_axis[i].name = s_axis[j].name => i = j
    /\ \A i, j \in 1..Len(m_axis) : m_axis[i].name = m_axis[j].name => i = j
    /\ Keys(s_axis) \cap Keys(m_axis) = {}

RECURSIVE Pow2(_)
Pow2(n) == IF n = 0 THEN 1 ELSE 2 * Pow2(n - 1)

\* The sum over i of params[i] << (width * (i - 1)), as a number.
RECURSIVE ShiftedSum(_, _)
ShiftedSum(params, width) ==
    IF params = << >> THEN 0
    ELSE Head(params) + Pow2(width) * ShiftedSum(Tail(params), width)

BaseAddrIsShiftedSum ==
    LET inst == Last(specials)
        aw   == inst.ADDR_WIDTH
    IN  /\ BitsToNat(inst.M_BASE_ADDR.value) = ShiftedSum(m_origins(m_axis), aw)
        /\ \A i \in 1..Len(m_axis) :
              BitsToNat(FieldOf(inst.M_BASE_ADDR.value, i - 1, aw)) = m_axis[i].origin

OriginsFit ==
    \A i \in 1..Len(m_axis) : m_axis[i].origin < Pow2(Last(specials).ADDR_WIDTH)

\* C7 (as stated): for every list of registered masters and every origin,
\* the packed M_BASE_ADDR equals the sum of origin[i] << (address_width * i)
\* and its address_width-bit field i holds master i's origin.
C7_Original == FinalizeReturned => BaseAddrIsShiftedSum

\* C7 (amended): the same, for origins below 2^address_width.
C7_BaseAddrPacked == (FinalizeReturned /\ OriginsFit) => BaseAddrIsShiftedSum

C7_Witness ==
    /\ FinalizeReturned
    /\ Len(m_axis) = 2
    /\ m_axis[1].origin = 1 /\ m_axis[2].origin = 3
    /\ Last(specials).ADDR_WIDTH = 2
    /\ BitsToNat(Last(specials).M_BASE_ADDR.value) = 13

\* C8: for every master (size > 0) the region width is the least w with
\* 2^w >= size (12 for 0x1000, 13 for 0x2000), and M_ADDR_WIDTH holds the
\* widths in fields of 32 bits, master 0 in the low-order field, whatever
\* the address width.
C8_RegionWidths ==
    FinalizeReturned =>
        LET c == Last(specials).M_ADDR_WIDTH
        IN  /\ c.nbits = 32 * Len(m_axis)
            /\ Len(c.value) <= c.nbits
            /\ \A i \in 1..Len(m_axis) :
                  LET w    == BitsToNat(FieldOf(c.value, i - 1, 32))
                      size == m_axis[i].size
                  IN  /\ Pow2(w) >= size
                      /\ w = 0 \/ Pow2(w - 1) < size
                      /\ size = 4096 => w = 12
                      /\ size = 8192 => w = 13

C8_Witness ==
    /\ FinalizeReturned
    /\ Len(m_axis) = 2
    /\ m_axis[1].size = 3 /\ m_axis[2].size = 8192
    /\ Last(specials).ADDR_WIDTH = 3
    /\ BitsToNat(FieldOf(Last(specials).M_ADDR_WIDTH.value, 0, 32)) = 2
    /\ BitsToNat(FieldOf(Last(specials).M_ADDR_WIDTH.value, 1, 32)) = 13

HoldsZeroSize == \E i \in 1..Len(m_axis) : m_axis[i].size = 0

C10_FinalizeIdempotent ==
    [][ (Finalize /\ FinalizeReturned)
          => (lastCall'.exc = "" /\ specials' = Append(specials, Last(specials))) ]_vars

C10_Witness ==
    /\ FinalizeReturned
    /\ Len(specials) = 2
    /\ specials[1] = specials[2]
    /\ Len(s_axis) >= 1 /\ Len(m_axis) >= 1

RECURSIVE SumSeq(_)
SumSeq(q) == IF q = << >> THEN 0 ELSE Head(q) + SumSeq(Tail(q))

\* Width of a concatenation: the widths of its slots added up.
VectorWidth(vec) == SumSeq([i \in 1..Len(vec) |-> vec[i].nbits])

\* The packed vectors of the model with the interface field each packs.
SlaveVectors  == { <<"s_axi_awid", "id">>, <<"s_axi_awaddr", "addr">>,
                   <<"s_axi_wdata", "data">> }
MasterVectors == { <<"m_axi_awid", "id">>, <<"m_axi_awaddr", "addr">>,
                   <<"m_axi_wdata", "data">> }

\* Slot i of vec is the field of the i-th port of the group, and the width
\* of vec is the sum of that field's widths over the group.
PositionalVector(vec, ports, field) ==
    /\ Len(vec) = Len(ports)
    /\ \A i \in 1..Len(ports) :
          /\ vec[i].axi = ports[i].axi
          /\ vec[i].signal = field
          /\ vec[i].nbits = AXIInterfaces[ports[i].axi][field]
    /\ VectorWidth(vec)
          = SumSeq([i \in 1..Len(ports) |-> AXIInterfaces[ports[i].axi][field]])

\* Every 1 bit of a is a 1 bit of b.
BitsWithin(a, b) == \A k \in 1..Len(a) : a[k] = 1 => BitAt(b, k) = 1

PackedInRegistrationOrder ==
    LET inst == Last(specials)
        aw   == inst.ADDR_WIDTH
    IN  /\ \A v \in SlaveVectors  : PositionalVector(inst[v[1]], s_axis, v[2])
        /\ \A v \in MasterVectors : PositionalVector(inst[v[1]], m_axis, v[2])
        /\ inst.M_BASE_ADDR.nbits = Len(m_axis) * aw
        /\ inst.M_ADDR_WIDTH.nbits = Len(m_axis) * 32
        /\ \A i \in 1..Len(m_axis) :
              LET base == FieldOf(inst.M_BASE_ADDR.value, i - 1, aw)
              IN  /\ BitsWithin(AsField(m_axis[i].origin, aw), base)
                  /\ OriginsFit => BitsToNat(base) = m_axis[i].origin
                  /\ \A w \in { BitsToNat(FieldOf(inst.M_ADDR_WIDTH.value, i - 1, 32)) } :
                        /\ Pow2(w) >= m_axis[i].size
                        /\ w = 0 \/ Pow2(w - 1) < m_axis[i].size

AllRegistered == registrations = Len(s_axis) + Len(m_axis)

\* C11: a registration that returns appends its port behind the ports of
\* its side, and after registrations that all returned do_finalize packs
\* positionally: slot i of every slave vector is the i-th registered slave's
\* field, slot i of every master vector and field i of M_BASE_ADDR and
\* M_ADDR_WIDTH are the i-th registered master's (field i of M_BASE_ADDR
\* has the bits of that master's origin, and is that origin when the
\* origins fit the address width), and each vector is as wide as its
\* group's fields together.
C11_PackingPositional ==
    [][ /\ (PackSlave /\ lastCall'.exc = "")
            => ( /\ Len(s_axis') = Len(s_axis) + 1
                 /\ SubSeq(s_axis', 1, Len(s_axis)) = s_axis
                 /\ m_axis' = m_axis )
        /\ (PackMaster /\ lastCall'.exc = "")
            => ( /\ Len(m_axis') = Len(m_axis) + 1
                 /\ SubSeq(m_axis', 1, Len(m_axis)) = m_axis
                 /\ s_axis' = s_axis )
        /\ (PackFinalize /\ AllRegistered /\ lastCall'.exc = "")
            => (s_axis' = s_axis /\ m_axis' = m_axis /\ PackedInRegistrationOrder')
      ]_vars

C11_Witness ==
    /\ FinalizeReturned
    /\ AllRegistered
    /\ AxisOf(s_axis) = << 1, 2 >>
    /\ AxisOf(m_axis) = << 2, 1 >>
    /\ m_origins(m_axis) = << 2, 1 >>
    /\ VectorWidth(Last(specials).s_axi_awid) = 3
    /\ Last(specials).s_axi_awid[2].axi = 2
    /\ BitsToNat(Last(specials).M_BASE_ADDR.value) = 6

\* C12: in every Instance do_finalize emits for a registry that holds a
\* slave, ID_WIDTH is the width of aw.id of the first registered slave.
C12_IdWidthOfFirstSlave ==
    (FinalizeReturned /\ Len(s_axis) >= 1)
        => Last(specials).ID_WIDTH = AXIInterfaces[s_axis[1].axi].id

EmptyRegistry == s_axis = << >> /\ m_axis = << >>

\* C13: get_check_parameters and do_finalize on a registry without ports
\* fail with the error of the empty list (IndexError), leave the parameter
\* attributes unassigned and emit no Instance.
C13_EmptyRegistryFails ==
    [][ ((Finalize \/ Validate) /\ EmptyRegistry)
          => ( /\ lastCall'.exc = "IndexError"
               /\ Attrs' = [clock_domain |-> Unset, address_width |-> Unset,
                            data_width |-> Unset, id_width |-> Unset]
               /\ specials' = << >> ) ]_vars

C13_Witness ==
    /\ EmptyRegistry
    /\ lastCall.op = "do_finalize"
    /\ lastCall.exc = "IndexError"
    /\ clock_domain = Unset
    /\ specials = << >>

\* The names under which interface axi is held in mapping d.
NamesOf(d, axi) == { d[i].name : i \in { j \in 1..Len(d) : d[j].axi = axi } }

\* C14: get_if_name returns for every interface held in s_axis or m_axis a
\* name under which it is held there, and None only for an interface that
\* neither mapping holds.
C14_LookupFindsRegistered ==
    \A axi \in Ifs :
        LET names == NamesOf(s_axis, axi) \cup NamesOf(m_axis, axi)
            found == get_if_name(s_axis, m_axis, axi)
        IN  IF names = {} THEN found = None ELSE found \in names

WrapperReturned == lastCall.op = WrapperOp /\ lastCall.exc = ""

UnsetAttrs ==
    [clock_domain |-> Unset, address_width |-> Unset,
     data_width |-> Unset, id_width |-> Unset]

\* What get_check_parameters gives for the mappings on an interconnect
\* that has no parameter attribute assigned yet.
FreshOutcome == get_check_parameters(s_axis, m_axis, UnsetAttrs)

\* C16: a call of get_check_parameters(show) leaves s_axis and m_axis as
\* they are, and it raises or returns, with the same error and the same
\* parameters, as a call on the same mappings does on an interconnect with no
\* parameter assigned yet: the outcome depends neither on show nor on the
\* earlier calls.
C16_ValidatePure ==
    [][ Validate
          => ( /\ s_axis' = s_axis
               /\ m_axis' = m_axis
               /\ lastCall'.exc = FreshOutcome.exc
               /\ lastCall'.error = FreshOutcome.error
               /\ (lastCall'.exc = "" => Attrs' = FreshOutcome.attrs) ) ]_vars

C16_Witness ==
    /\ lastCall.op = "get_check_parameters"
    /\ ~lastCall.show
    /\ lastCall.exc = "AXIError"
    /\ clock_domain # Unset
    /\ Len(s_axis) + Len(m_axis) >= 2

DuplicateNameRaised == lastCall'.exc = "ValueError"

\* C17: add_slave and add_master called without a name enter the port under
\* "s_axi" / "m_axi" followed by the number of ports of that side, and never
\* raise the duplicate-name ValueError, whatever names earlier calls used.
C17_DefaultNameUnique ==
    [][ /\ \A axi \in Ifs :
              add_slave(None, axi)
                  => /\ ~DuplicateNameRaised
                     /\ Last(s_axis').name = "s_axi" \o ToString(Len(s_axis))
        /\ \A axi \in Ifs, region \in Regions :
              add_master(None, axi, region.origin, region.size)
                  => /\ ~DuplicateNameRaised
                     /\ Last(m_axis').name = "m_axi" \o ToString(Len(m_axis)) ]_vars

\* The interface get_check_parameters reads the parameters from when it is
\* called on the mappings as they are now.
FirstChecked == AXIInterfaces[CheckedAxis(s_axis, m_axis)[1]]

\* C18: the clock domain, ADDR_WIDTH, DATA_WIDTH and ID_WIDTH of every
\* Instance do_finalize emitted are the ones the mappings give at that
\* call, whatever the attributes held from earlier calls of
\* get_check_parameters, failed ones included.
C18_ParametersComputedAtFinalize ==
    \A i \in 1..Len(specials) :
        /\ specials[i].clk = FirstChecked.clock_domain
        /\ specials[i].ADDR_WIDTH = FirstChecked.addr
        /\ specials[i].DATA_WIDTH = FirstChecked.data
        /\ specials[i].ID_WIDTH = FirstChecked.id

C18_Witness ==
    /\ specials # << >>
    /\ registrations < Len(s_axis) + Len(m_axis)
    /\ Last(specials).ID_WIDTH # AXIInterfaces[first_registered].id

\* The error of the first property, in the order clock domain, address
\* width, data width, in which some port differs from the first port.
FirstMismatch ==
    IF Differs(AllPorts, "clock_domain") THEN "Different Clock Domain"
    ELSE IF Differs(AllPorts, "addr") THEN "Different Address Width"
    ELSE IF Differs(AllPorts, "data") THEN "Different Data Width"
    ELSE ""

ParametersChecked ==
    /\ lastCall.op \in {"add_slave", "add_master", "do_finalize"}
    /\ ~(lastCall.op # "do_finalize" /\ lastCall.exc = "ValueError")
    /\ AllPorts # << >>

\* C19: a call that checks the parameters raises the error of the first
\* property, in the order clock domain, address width, data width, in which
\* any port of the slaves-then-masters sequence differs from the first port
\* of that sequence, and the clock domain it assigns is that first port's.
C19_FirstMismatchInOrder ==
    ParametersChecked
        => /\ lastCall.error = FirstMismatch
           /\ clock_domain = AXIInterfaces[AllPorts[1]].clock_domain

====
